---- MODULE Spec2Model ----
(***************************************************************************)
(* gvrtex-cli: the command-line front end of the GVR texture codec.        *)
(* The model follows one run of `main` (src/src/main.rs) from the parsed   *)
(* command line to process exit.  The texture codec, the file system and   *)
(* the argument parser are external: a call into them either succeeds or   *)
(* fails, and the model takes both outcomes.                               *)
(***************************************************************************)
EXTENDS Naturals, Sequences, FiniteSets, TLC

\* Largest --global-index value explored (the option is a u32; the code only
\* distinguishes zero from non-zero and copies the value).
MaxGlobalIndex == 2

\* Process statuses.
ExitSuccess == 0
ExitFailure == 1
UsageExit == 2
PanicExit == 101

(***************************************************************************)
(* Format Catalog (src/src/formats.rs)                                     *)
(***************************************************************************)
PixelFormat == {"IntensityA8", "Rgb565", "Rgb5a3"}

DataFormat ==
    {"Intensity4", "Intensity8", "IntensityA4", "IntensityA8", "Rgb565",
     "Rgb5a3", "Argb8888", "Index4", "Index8", "Dxt1"}

HeaderId == {"Gcix", "Gbix"}

\* impl Display for PixelFormat
PixelFormatDisplay(value) ==
    CASE value = "IntensityA8" -> "Intensity 8-bit With Alpha"
      [] value = "Rgb565" -> "RGB565"
      [] value = "Rgb5a3" -> "RGB5A3"

\* impl From<PixelFormat> for gvrtex::formats::PixelFormat
PixelFormatInto(value) ==
    CASE value = "IntensityA8" -> "gvrtex::PixelFormat::IntensityA8"
      [] value = "Rgb565" -> "gvrtex::PixelFormat::RGB565"
      [] value = "Rgb5a3" -> "gvrtex::PixelFormat::RGB5A3"

\* impl Display for DataFormat
DataFormatDisplay(value) ==
    CASE value = "Intensity4" -> "Intensity 4-bit"
      [] value = "Intensity8" -> "Intensity 8-bit"
      [] value = "IntensityA4" -> "Intensity 4-bit With Alpha"
      [] value = "IntensityA8" -> "Intensity 8-bit With Alpha"
      [] value = "Rgb565" -> "RGB565"
      [] value = "Rgb5a3" -> "RGB5A3"
      [] value = "Argb8888" -> "ARGB8888"
      [] value = "Index4" -> "4-bit Indexed"
      [] value = "Index8" -> "8-bit Indexed"
      [] value = "Dxt1" -> "DXT1 Compressed"

\* impl From<DataFormat> for gvrtex::formats::DataFormat
DataFormatInto(value) ==
    CASE value = "Intensity4" -> "gvrtex::DataFormat::Intensity4"
      [] value = "Intensity8" -> "gvrtex::DataFormat::Intensity8"
      [] value = "IntensityA4" -> "gvrtex::DataFormat::IntensityA4"
      [] value = "IntensityA8" -> "gvrtex::DataFormat::IntensityA8"
      [] value = "Rgb565" -> "gvrtex::DataFormat::Rgb565"
      [] value = "Rgb5a3" -> "gvrtex::DataFormat::Rgb5a3"
      [] value = "Argb8888" -> "gvrtex::DataFormat::Argb8888"
      [] value = "Index4" -> "gvrtex::DataFormat::Index4"
      [] value = "Index8" -> "gvrtex::DataFormat::Index8"
      [] value = "Dxt1" -> "gvrtex::DataFormat::Dxt1"

\* #[derive(ValueEnum)] on DataFormat: to_possible_value().get_name() is the
\* variant's name in kebab case, the word the user types after --data-format
\* (main.rs:31 and main.rs:36 quote `index4`, `index8`, `dxt1`, `rgb565`,
\* `rgb5a3`).
DataFormatPossibleValueName(value) ==
    CASE value = "Intensity4" -> "intensity4"
      [] value = "Intensity8" -> "intensity8"
      [] value = "IntensityA4" -> "intensity-a4"
      [] value = "IntensityA8" -> "intensity-a8"
      [] value = "Rgb565" -> "rgb565"
      [] value = "Rgb5a3" -> "rgb5a3"
      [] value = "Argb8888" -> "argb8888"
      [] value = "Index4" -> "index4"
      [] value = "Index8" -> "index8"
      [] value = "Dxt1" -> "dxt1"

\* impl Display for HeaderId (main.rs)
HeaderIdDisplay(value) ==
    CASE value = "Gcix" -> "GCIX"
      [] value = "Gbix" -> "GBIX"

(***************************************************************************)
(* Paths.  A PathBuf taken from the command line need not be UTF-8:        *)
(* Path::to_str gives None for it and Path::display renders it lossily.    *)
(***************************************************************************)
NonUtf8Path == "<non-UTF-8 path>"

InputPaths == {"input.file", NonUtf8Path}

OutputPaths == {"output.file", NonUtf8Path}

\* Path::to_str: Some(path) as <<path>>, None as <<>>.
ToStr(path) == IF path = NonUtf8Path THEN <<>> ELSE <<path>>

\* Path::display
PathDisplay(path) == IF path = NonUtf8Path THEN "<lossy path>" ELSE path

\* Display of a bool
BoolDisplay(b) == IF b THEN "true" ELSE "false"

(***************************************************************************)
(* State of one run                                                        *)
(***************************************************************************)
VARIABLES
    command,        \* "Encode" or "Decode" (Commands)
    input,          \* input path
    output,         \* output path
    data_format,    \* --data-format
    pixel_format,   \* --pixel-format
    mipmaps,        \* --mipmaps
    header,         \* --header
    global_index,   \* --global-index
    pc,             \* position of main
    log,            \* operations performed so far, in order, with their outcome
    encoder,        \* <<>> or <<the TextureEncoder handle>>
    decoder,        \* <<>> or <<the TextureDecoder handle>>
    encoded,        \* <<>> or <<the bytes the encode call returned>>
    files,          \* paths written so far, in order
    stdout,         \* lines printed to standard output
    stderr,         \* lines printed to standard error
    exit_code       \* <<>> while running, <<status>> once the process ended

request == <<command, input, output, data_format, pixel_format, mipmaps, header,
             global_index>>

vars == <<command, input, output, data_format, pixel_format, mipmaps, header,
          global_index, pc, log, encoder, decoder, encoded, files, stdout,
          stderr, exit_code>>

\* An operation of the run as logged: its name, its arguments, its outcome.
Event(op, args, ok) == [op |-> op, args |-> args, ok |-> ok]

\* A line of output is a sequence of text fragments.
Contains(line, text) == \E i \in 1..Len(line) : line[i] = text

\* {e} of an error the codec or the file system returned.
ErrorText(op) == <<"  ", "<error of " , op, ">">>

\* The message of a panic (expect / unwrap on a missing value).
PanicLine(message) == <<"thread 'main' panicked: ", message>>

(***************************************************************************)
(* Option validation and encoder selection (main.rs, Commands::Encode)     *)
(***************************************************************************)
\* Faulty variant of MipmapsSupported: rgb5a3 left out of the supported set.
MipmapsSupported_NoRgb5a3(value) == value \in {"Dxt1", "Rgb565"}

\* matches!(data_format, Dxt1 | Rgb565 | Rgb5a3)
MipmapsSupported(value) == value \in {"Dxt1", "Rgb565", "Rgb5a3"}

\* Faulty variant of MipmapsRejected: the validation never rejects.
MipmapsRejected_Never(value, flag) == FALSE

\* The condition of the mipmap validation: *mipmaps && matches!(..).not()
MipmapsRejected(value, flag) == flag /\ ~MipmapsSupported(value)

\* Faulty variant of MipmapErrorMessage: the Display label instead of the
\* possible-value name.
MipmapErrorMessage_DisplayLabel(value) ==
    <<"Can't use mipmaps on the ", "<backtick>", DataFormatDisplay(value),
      "<backtick>", " data format.">>

\* The backtick character of the message (it cannot stand in a string here).
Backtick == "<backtick>"

\* format!("Can't use mipmaps on the `{name}` data format.") with
\* name = data_format.to_possible_value().unwrap().get_name()
MipmapErrorMessage(value) ==
    <<"Can't use mipmaps on the ", Backtick, DataFormatPossibleValueName(value),
      Backtick, " data format.">>

\* What cmd.error(ErrorKind::ArgumentConflict, message) prints before exit.
UsageError(message) == << <<"error:", " ">> \o message, <<"Usage: gvrtex encode">> >>

\* DataFormat::Index4 | DataFormat::Index8
IsPalettized(value) == value \in {"Index4", "Index8"}

\* Faulty variant of SelectConstructor: the palettized arm takes the other
\* header's constructor.
SelectConstructor_SwappedHeader(df, pf, hd) ==
    IF IsPalettized(df)
    THEN IF hd = "Gcix"
         THEN [op |-> "new_gbix_palettized",
               args |-> <<PixelFormatInto(pf), DataFormatInto(df)>>]
         ELSE [op |-> "new_gcix_palettized",
               args |-> <<PixelFormatInto(pf), DataFormatInto(df)>>]
    ELSE IF hd = "Gcix"
         THEN [op |-> "new_gcix", args |-> <<DataFormatInto(df)>>]
         ELSE [op |-> "new_gbix", args |-> <<DataFormatInto(df)>>]

\* Faulty variant of SelectConstructor: every data format takes the
\* palettized constructors.
SelectConstructor_AlwaysPalettized(df, pf, hd) ==
    IF hd = "Gcix"
    THEN [op |-> "new_gcix_palettized",
          args |-> <<PixelFormatInto(pf), DataFormatInto(df)>>]
    ELSE [op |-> "new_gbix_palettized",
          args |-> <<PixelFormatInto(pf), DataFormatInto(df)>>]

\* The constructor call the match on data_format and header makes.
SelectConstructor(df, pf, hd) ==
    IF IsPalettized(df)
    THEN IF hd = "Gcix"
         THEN [op |-> "new_gcix_palettized",
               args |-> <<PixelFormatInto(pf), DataFormatInto(df)>>]
         ELSE [op |-> "new_gbix_palettized",
               args |-> <<PixelFormatInto(pf), DataFormatInto(df)>>]
    ELSE IF hd = "Gcix"
         THEN [op |-> "new_gcix", args |-> <<DataFormatInto(df)>>]
         ELSE [op |-> "new_gbix", args |-> <<DataFormatInto(df)>>]

\* The handle a constructor returns on success: the header variant is the
\* constructor's, the index field starts at its default, no mipmaps.
NewEncoder(ctor) ==
    [magic |-> IF ctor.op \in {"new_gcix", "new_gcix_palettized"}
               THEN "GCIX" ELSE "GBIX",
     data_format |-> ctor.args[Len(ctor.args)],
     palette |-> IF Len(ctor.args) = 2 THEN <<ctor.args[1]>> ELSE <<>>,
     mipmaps |-> FALSE,
     global_index |-> 0]

\* TextureEncoder::with_mipmaps: the codec supports mipmaps on dxt1, rgb565
\* and rgb5a3 only (main.rs:36) and returns an error for any other format.
WithMipmapsOk(handle) ==
    handle.data_format \in
        {DataFormatInto("Dxt1"), DataFormatInto("Rgb565"), DataFormatInto("Rgb5a3")}

\* Faulty variant of GlobalIndexGiven: off by one.
GlobalIndexGiven_OffByOne(n) == n > 1

\* if *global_index > 0
GlobalIndexGiven(n) == n > 0

\* Faulty variant of EncodeReport: the pixel format line is always printed.
EncodeReport_AlwaysPixelFormat(out, hd, df, pf, mm, gi) ==
    << <<"success:", " saved encoded texture to:">>,
       <<"  ", PathDisplay(out)>>,
       <<>>,
       <<"info:">>,
       <<"  Header: ", HeaderIdDisplay(hd)>>,
       <<"  Data format: ", DataFormatDisplay(df)>>,
       <<"  Pixel format: ", PixelFormatDisplay(pf)>>,
       <<"  Mipmaps: ", BoolDisplay(mm)>>,
       <<"  Global index: ", ToString(gi)>> >>

\* The success block of encode.
EncodeReport(out, hd, df, pf, mm, gi) ==
    << <<"success:", " saved encoded texture to:">>,
       <<"  ", PathDisplay(out)>>,
       <<>>,
       <<"info:">>,
       <<"  Header: ", HeaderIdDisplay(hd)>>,
       <<"  Data format: ", DataFormatDisplay(df)>> >>
    \o (IF IsPalettized(df)
        THEN << <<"  Pixel format: ", PixelFormatDisplay(pf)>> >>
        ELSE << >>)
    \o << <<"  Mipmaps: ", BoolDisplay(mm)>>,
          <<"  Global index: ", ToString(gi)>> >>

\* The success block of decode.
DecodeReport(out) ==
    << <<"success:", " saved decoded image to:">>, <<"  ", PathDisplay(out)>> >>

\* ceprintln!("<r!>error:</> <label>"); eprintln!("  {e}");
FailureBlock(label, op) == << <<"error:", label>>, ErrorText(op) >>

(***************************************************************************)
(* Init: the state after Cli::parse()                                      *)
(***************************************************************************)
Init ==
    /\ command \in {"Encode", "Decode"}
    /\ input \in InputPaths
    /\ output \in OutputPaths
    /\ IF command = "Encode"
       THEN /\ data_format \in DataFormat
            /\ pixel_format \in PixelFormat
            /\ mipmaps \in BOOLEAN
            /\ header \in HeaderId
            /\ global_index \in 0..MaxGlobalIndex
            /\ pc = "validate"
       ELSE /\ data_format = "Dxt1"
            /\ pixel_format = "Rgb5a3"
            /\ mipmaps = FALSE
            /\ header = "Gcix"
            /\ global_index = 0
            /\ pc = "open"
    /\ log = <<>>
    /\ encoder = <<>>
    /\ decoder = <<>>
    /\ encoded = <<>>
    /\ files = <<>>
    /\ stdout = <<>>
    /\ stderr = <<>>
    /\ exit_code = <<>>

\* Faulty variant of Fail: the failure is printed and the run goes on to the
\* success block instead of returning.
Fail_NoReturn(lines, status) ==
    /\ stderr' = stderr \o lines
    /\ exit_code' = exit_code
    /\ pc' = IF command = "Encode" THEN "report" ELSE "report_decode"

\* The process ends with `status` after printing `lines` to standard error.
Fail(lines, status) ==
    /\ stderr' = stderr \o lines
    /\ exit_code' = <<status>>
    /\ pc' = "done"

(***************************************************************************)
(* encode                                                                  *)
(***************************************************************************)
\* Faulty variant of Validate: the error is printed without ending the process.
Validate_NoExit ==
    /\ pc = "validate"
    /\ IF MipmapsRejected(data_format, mipmaps)
       THEN /\ log' = Append(log, Event("validate", <<>>, FALSE))
            /\ stderr' = stderr \o UsageError(MipmapErrorMessage(data_format))
            /\ pc' = "construct"
            /\ UNCHANGED exit_code
       ELSE /\ log' = Append(log, Event("validate", <<>>, TRUE))
            /\ pc' = "construct"
            /\ UNCHANGED <<stderr, exit_code>>
    /\ UNCHANGED <<request, encoder, decoder, encoded, files, stdout>>

\* main.rs 90-106: the mipmap validation; cmd.error(..).exit() ends the process.
Validate ==
    /\ pc = "validate"
    /\ IF MipmapsRejected(data_format, mipmaps)
       THEN /\ log' = Append(log, Event("validate", <<>>, FALSE))
            /\ Fail(UsageError(MipmapErrorMessage(data_format)), UsageExit)
       ELSE /\ log' = Append(log, Event("validate", <<>>, TRUE))
            /\ pc' = "construct"
            /\ UNCHANGED <<stderr, exit_code>>
    /\ UNCHANGED <<request, encoder, decoder, encoded, files, stdout>>

\* main.rs 109-140: one constructor call, then the check of its result.
Construct ==
    /\ pc = "construct"
    /\ LET ctor == SelectConstructor(data_format, pixel_format, header) IN
       \E ok \in BOOLEAN :
          /\ log' = Append(log, Event(ctor.op, ctor.args, ok))
          /\ IF ok
             THEN /\ encoder' = <<NewEncoder(ctor)>>
                  /\ pc' = "with_mipmaps"
                  /\ UNCHANGED <<stderr, exit_code>>
             ELSE /\ Fail(FailureBlock(" while initializing:", ctor.op), ExitFailure)
                  /\ UNCHANGED encoder
    /\ UNCHANGED <<request, decoder, encoded, files, stdout>>

\* main.rs 141-144: encoder = encoder.with_mipmaps().unwrap()
ApplyMipmaps ==
    /\ pc = "with_mipmaps"
    /\ IF mipmaps
       THEN IF WithMipmapsOk(encoder[1])
            THEN /\ log' = Append(log, Event("with_mipmaps", <<>>, TRUE))
                 /\ encoder' = <<[encoder[1] EXCEPT !.mipmaps = TRUE]>>
                 /\ pc' = "with_global_index"
                 /\ UNCHANGED <<stderr, exit_code>>
            ELSE /\ log' = Append(log, Event("with_mipmaps", <<>>, FALSE))
                 /\ Fail(<<PanicLine("called Result::unwrap() on an Err value")>>,
                         PanicExit)
                 /\ UNCHANGED encoder
       ELSE /\ pc' = "with_global_index"
            /\ UNCHANGED <<log, encoder, stderr, exit_code>>
    /\ UNCHANGED <<request, decoder, encoded, files, stdout>>

\* main.rs 145-147: encoder = encoder.with_global_index(*global_index)
ApplyGlobalIndex ==
    /\ pc = "with_global_index"
    /\ IF GlobalIndexGiven(global_index)
       THEN /\ log' = Append(log, Event("with_global_index",
                                        <<ToString(global_index)>>, TRUE))
            /\ encoder' = <<[encoder[1] EXCEPT !.global_index = global_index]>>
       ELSE UNCHANGED <<log, encoder>>
    /\ pc' = "encode"
    /\ UNCHANGED <<request, decoder, encoded, files, stdout, stderr, exit_code>>

\* Faulty variant of Encode: an encode error is printed and the run goes on
\* to write the output.
Encode_ContinueOnError ==
    /\ pc = "encode"
    /\ IF ToStr(input) = <<>>
       THEN /\ Fail(<<PanicLine("Couldn't parse input path.")>>, PanicExit)
            /\ UNCHANGED <<log, encoded, encoder>>
       ELSE \E ok \in BOOLEAN :
               /\ log' = Append(log, Event("encode", ToStr(input), ok))
               /\ encoder' = <<>>
               /\ pc' = "write"
               /\ IF ok
                  THEN /\ encoded' = <<encoder[1]>>
                       /\ UNCHANGED <<stderr, exit_code>>
                  ELSE /\ stderr' = stderr
                                   \o FailureBlock(" while encoding texture:", "encode")
                       /\ UNCHANGED <<encoded, exit_code>>
    /\ UNCHANGED <<request, decoder, files, stdout>>

\* main.rs 149-157: encoder.encode(input.to_str().expect(..))
Encode ==
    /\ pc = "encode"
    /\ IF ToStr(input) = <<>>
       THEN /\ Fail(<<PanicLine("Couldn't parse input path.")>>, PanicExit)
            /\ UNCHANGED <<log, encoded, encoder>>
       ELSE \E ok \in BOOLEAN :
               /\ log' = Append(log, Event("encode", ToStr(input), ok))
               /\ encoder' = <<>>
               /\ IF ok
                  THEN /\ encoded' = <<encoder[1]>>
                       /\ pc' = "write"
                       /\ UNCHANGED <<stderr, exit_code>>
                  ELSE /\ Fail(FailureBlock(" while encoding texture:", "encode"),
                               ExitFailure)
                       /\ UNCHANGED encoded
    /\ UNCHANGED <<request, decoder, files, stdout>>

\* main.rs 159-166: std::fs::write(output.to_str().expect(..), &encoded)
WriteOutput ==
    /\ pc = "write"
    /\ IF ToStr(output) = <<>>
       THEN /\ Fail(<<PanicLine("Couldn't parse output path.")>>, PanicExit)
            /\ UNCHANGED <<log, files>>
       ELSE \E ok \in BOOLEAN :
               /\ log' = Append(log, Event("write", ToStr(output), ok))
               /\ IF ok
                  THEN /\ files' = Append(files, output)
                       /\ pc' = "report"
                       /\ UNCHANGED <<stderr, exit_code>>
                  ELSE /\ Fail(FailureBlock(" while writing output file:", "write"),
                               ExitFailure)
                       /\ UNCHANGED files
    /\ UNCHANGED <<request, encoder, decoder, encoded, stdout>>

\* main.rs 168-180 and 212: the success block, then ExitCode::SUCCESS.
ReportEncode ==
    /\ pc = "report"
    /\ stdout' = stdout \o EncodeReport(output, header, data_format, pixel_format,
                                        mipmaps, global_index)
    /\ exit_code' = <<ExitSuccess>>
    /\ pc' = "done"
    /\ UNCHANGED <<request, log, encoder, decoder, encoded, files, stderr>>

(***************************************************************************)
(* decode                                                                  *)
(***************************************************************************)
\* main.rs 184-190: TextureDecoder::new(input.to_str().expect(..))
Open ==
    /\ pc = "open"
    /\ IF ToStr(input) = <<>>
       THEN /\ Fail(<<PanicLine("Couldn't parse input path.")>>, PanicExit)
            /\ UNCHANGED <<log, decoder>>
       ELSE \E ok \in BOOLEAN :
               /\ log' = Append(log, Event("open", ToStr(input), ok))
               /\ IF ok
                  THEN /\ decoder' = <<[path |-> input, decoded |-> FALSE]>>
                       /\ pc' = "decode"
                       /\ UNCHANGED <<stderr, exit_code>>
                  ELSE /\ Fail(FailureBlock(" while opening input file:", "open"),
                               ExitFailure)
                       /\ UNCHANGED decoder
    /\ UNCHANGED <<request, encoder, encoded, files, stdout>>

\* main.rs 192-196: decoder.as_mut().unwrap().decode()
Decode ==
    /\ pc = "decode"
    /\ \E ok \in BOOLEAN :
          /\ log' = Append(log, Event("decode", <<>>, ok))
          /\ IF ok
             THEN /\ decoder' = <<[decoder[1] EXCEPT !.decoded = TRUE]>>
                  /\ pc' = "save"
                  /\ UNCHANGED <<stderr, exit_code>>
             ELSE /\ Fail(FailureBlock(" while decoding input file:", "decode"),
                          ExitFailure)
                  /\ UNCHANGED decoder
    /\ UNCHANGED <<request, encoder, encoded, files, stdout>>

\* main.rs 198-205: decoder.unwrap().save(output.to_str().expect(..))
Save ==
    /\ pc = "save"
    /\ decoder' = <<>>
    /\ IF ToStr(output) = <<>>
       THEN /\ Fail(<<PanicLine("Couldn't parse the output path.")>>, PanicExit)
            /\ UNCHANGED <<log, files>>
       ELSE \E ok \in BOOLEAN :
               /\ log' = Append(log, Event("save", ToStr(output), ok))
               /\ IF ok
                  THEN /\ files' = Append(files, output)
                       /\ pc' = "report_decode"
                       /\ UNCHANGED <<stderr, exit_code>>
                  ELSE /\ Fail(FailureBlock(" while saving output image:", "save"),
                               ExitFailure)
                       /\ UNCHANGED files
    /\ UNCHANGED <<request, encoder, encoded, stdout>>

\* main.rs 207-212: the success block, then ExitCode::SUCCESS.
ReportDecode ==
    /\ pc = "report_decode"
    /\ stdout' = stdout \o DecodeReport(output)
    /\ exit_code' = <<ExitSuccess>>
    /\ pc' = "done"
    /\ UNCHANGED <<request, log, encoder, decoder, encoded, files, stderr>>

Next ==
    \/ Validate
    \/ Construct
    \/ ApplyMipmaps
    \/ ApplyGlobalIndex
    \/ Encode
    \/ WriteOutput
    \/ ReportEncode
    \/ Open
    \/ Decode
    \/ Save
    \/ ReportDecode

Spec == Init /\ [][Next]_vars

(***************************************************************************)
(* Properties                                                              *)
(***************************************************************************)
Constructors ==
    {"new_gcix", "new_gbix", "new_gcix_palettized", "new_gbix_palettized"}

\* Positions in the log of the calls of `op`.
Calls(op) == {i \in 1..Len(log) : log[i].op = op}

ConstructorCalls == {i \in 1..Len(log) : log[i].op \in Constructors}

Has(op) == Calls(op) # {}

\* The validation rejected the request.
Rejected == \E i \in 1..Len(log) : log[i] = Event("validate", <<>>, FALSE)

\* A line of `lines` that starts with `prefix`.
HasLine(lines, prefix) ==
    \E i \in 1..Len(lines) : Len(lines[i]) > 0 /\ lines[i][1] = prefix

SuccessPrinted == HasLine(stdout, "success:")

\* C1: an encode request with mipmaps is rejected by the validation exactly
\* when its data format is none of Dxt1, Rgb565, Rgb5a3; a request without
\* mipmaps is never rejected; and a rejected run ends there, with the usage
\* status, no constructor called, no encoder, nothing written and no
\* success block: it is never run on without mipmaps.
C1_MipmapRejection ==
    (command = "Encode" /\ pc # "validate") =>
        /\ Rejected <=> (mipmaps /\ data_format \notin {"Dxt1", "Rgb565", "Rgb5a3"})
        /\ Rejected =>
              /\ pc = "done"
              /\ exit_code = <<UsageExit>>
              /\ ConstructorCalls = {}
              /\ encoder = <<>>
              /\ encoded = <<>>
              /\ files = <<>>
              /\ stdout = <<>>

C1_Witness ==
    /\ Rejected
    /\ data_format = "Argb8888"
    /\ pc = "done"

\* C2 as stated: the message of a rejected mipmaps request names the data
\* format by its Display label.
C2_MessageHasDisplayLabel ==
    Rejected =>
        stderr[1] = <<"error:", " ", "Can't use mipmaps on the ", Backtick,
                      DataFormatDisplay(data_format), Backtick, " data format.">>

\* C2 as amended: the message of a rejected mipmaps request is "Can't use
\* mipmaps on the `<name>` data format." where <name> is the data format's
\* command-line value name (index8 for Index8), which is never its Display
\* label (8-bit Indexed).
C2_MessageHasValueName ==
    Rejected =>
        /\ stderr[1] = <<"error:", " ", "Can't use mipmaps on the ", Backtick,
                         DataFormatPossibleValueName(data_format), Backtick,
                         " data format.">>
        /\ ~Contains(stderr[1], DataFormatDisplay(data_format))
        /\ data_format = "Index8" =>
              /\ Contains(stderr[1], "index8")
              /\ ~Contains(stderr[1], "8-bit Indexed")

C2_Witness ==
    /\ Rejected
    /\ data_format = "Index8"
    /\ Len(stderr) > 0

\* C3: a constructor is called only after the validation accepted the
\* request, and once the validation has rejected it nothing else is ever
\* done: no constructor, modifier, encode call or file write.
C3_ValidationFirst ==
    /\ \A i \in ConstructorCalls : i > 1 /\ log[1] = Event("validate", <<>>, TRUE)
    /\ Rejected =>
          /\ log = <<Event("validate", <<>>, FALSE)>>
          /\ encoder = <<>>
          /\ encoded = <<>>
          /\ files = <<>>

C3_Witness ==
    /\ Rejected
    /\ data_format = "Intensity4"
    /\ exit_code # <<>>

\* The constructor the selection table names for a request.
ExpectedConstructor ==
    IF data_format \in {"Index4", "Index8"}
    THEN IF header = "Gcix" THEN "new_gcix_palettized" ELSE "new_gbix_palettized"
    ELSE IF header = "Gcix" THEN "new_gcix" ELSE "new_gbix"

\* The header variant a constructor builds.
ConstructorHeader(op) ==
    IF op \in {"new_gcix", "new_gcix_palettized"} THEN "GCIX" ELSE "GBIX"

\* C4: before the construction step no constructor has been called; after
\* it, in a run whose request passed the validation, exactly one constructor
\* call has been made, it is the one the table selects from (is palettized,
\* header), with (pixel_format, data_format) for the palettized ones and
\* (data_format) for the plain ones; and the header label of the summary
\* names the header variant of that constructor.
C4_OneConstructor ==
    command = "Encode" =>
        /\ pc \in {"validate", "construct"} => ConstructorCalls = {}
        /\ (pc \notin {"validate", "construct"} /\ ~Rejected) =>
              /\ Cardinality(ConstructorCalls) = 1
              /\ \A i \in ConstructorCalls :
                    /\ log[i].op = ExpectedConstructor
                    /\ log[i].args =
                          IF data_format \in {"Index4", "Index8"}
                          THEN <<PixelFormatInto(pixel_format),
                                 DataFormatInto(data_format)>>
                          ELSE <<DataFormatInto(data_format)>>
                    /\ SuccessPrinted =>
                          \E j \in 1..Len(stdout) :
                             stdout[j] = <<"  Header: ", ConstructorHeader(log[i].op)>>

C4_Witness ==
    /\ SuccessPrinted
    /\ data_format = "Index4"
    /\ pixel_format = "Rgb565"
    /\ header = "Gbix"
    /\ Has("new_gbix_palettized")

\* C5: once the modifier step is over, the "with global index" modifier has
\* been called exactly when global_index > 0, once, with that value; the
\* index field of the encoder handed to the encode call is 0, the default,
\* when global_index = 0 and exactly N when global_index = N > 0.
C5_GlobalIndex ==
    /\ Has("with_global_index") => global_index > 0
    /\ \A i \in Calls("with_global_index") : log[i].args = <<ToString(global_index)>>
    /\ Cardinality(Calls("with_global_index")) <= 1
    /\ (command = "Encode" /\ pc = "encode") =>
          /\ global_index > 0 => Has("with_global_index")
          /\ encoder[1].global_index = global_index
    /\ encoded # <<>> =>
          /\ global_index > 0 => Has("with_global_index")
          /\ encoded[1].global_index = global_index

C5_Witness ==
    /\ encoded # <<>>
    /\ global_index = 2
    /\ encoded[1].global_index = 2

C5_WitnessZero ==
    /\ encoded # <<>>
    /\ global_index = 0
    /\ ~Has("with_global_index")

\* The run of encode ended in success.
EncodeSucceeded == command = "Encode" /\ exit_code = <<ExitSuccess>>

\* C6: the summary of a successful encode has the destination path, the
\* header label, the data format label, the mipmap boolean and the literal
\* global index (also when it is zero); it has a pixel format entry exactly
\* when the data format is Index4 or Index8, and that entry carries the
\* pixel format's label.
C6_Summary ==
    EncodeSucceeded =>
        /\ \E i \in 1..Len(stdout) : stdout[i] = <<"  ", PathDisplay(output)>>
        /\ \E i \in 1..Len(stdout) :
              stdout[i] = <<"  Header: ", IF header = "Gcix" THEN "GCIX" ELSE "GBIX">>
        /\ \E i \in 1..Len(stdout) :
              stdout[i] = <<"  Data format: ", DataFormatDisplay(data_format)>>
        /\ \E i \in 1..Len(stdout) :
              stdout[i] = <<"  Mipmaps: ", IF mipmaps THEN "true" ELSE "false">>
        /\ \E i \in 1..Len(stdout) :
              stdout[i] = <<"  Global index: ", ToString(global_index)>>
        /\ HasLine(stdout, "  Pixel format: ") <=> data_format \in {"Index4", "Index8"}
        /\ \A i \in 1..Len(stdout) :
              (Len(stdout[i]) > 0 /\ stdout[i][1] = "  Pixel format: ") =>
                 stdout[i] = <<"  Pixel format: ", PixelFormatDisplay(pixel_format)>>

C6_Witness ==
    /\ EncodeSucceeded
    /\ data_format = "Index8"
    /\ global_index = 0
    /\ HasLine(stdout, "  Pixel format: ")

C6_WitnessPlain ==
    /\ EncodeSucceeded
    /\ data_format = "Rgb565"
    /\ pixel_format = "Rgb565"
    /\ ~HasLine(stdout, "  Pixel format: ")

\* The failure category labels of main.
FailureLabels ==
    {" while initializing:", " while encoding texture:",
     " while writing output file:", " while opening input file:",
     " while decoding input file:", " while saving output image:"}

\* The full success block and nothing else, with status zero.
SuccessOutcome ==
    /\ exit_code = <<ExitSuccess>>
    /\ stderr = <<>>
    /\ stdout = IF command = "Encode"
                THEN EncodeReport(output, header, data_format, pixel_format,
                                  mipmaps, global_index)
                ELSE DecodeReport(output)

\* A failure block (the label "error:" with a category or the usage
\* message, followed by the underlying error's text) and nothing else, with
\* a non-zero status.
FailureOutcome ==
    /\ exit_code \in {<<ExitFailure>>, <<UsageExit>>}
    /\ stdout = <<>>
    /\ Len(stderr) = 2
    /\ stderr[1][1] = "error:"
    /\ \/ /\ stderr[1][2] \in FailureLabels
          /\ Len(stderr[1]) = 2
          /\ stderr[2][1] = "  "
          /\ exit_code = <<ExitFailure>>
       \/ /\ Contains(stderr[1], "Can't use mipmaps on the ")
          /\ exit_code = <<UsageExit>>

\* The run ended by a panic: the panic message and nothing else, with the
\* panic status.
PanicOutcome ==
    /\ exit_code = <<PanicExit>>
    /\ stdout = <<>>
    /\ Len(stderr) = 1
    /\ stderr[1][1] = "thread 'main' panicked: "

AllStepsSucceeded == \A i \in 1..Len(log) : log[i].ok

\* C7 as stated: every run ends either with the full success block and
\* status zero or with a failure block (category label, then the error's
\* message) and a non-zero status.
C7_TwoOutcomes ==
    pc = "done" => (SuccessOutcome \/ FailureOutcome)

\* C7 as amended: every run ends in exactly one of three outcomes: the full
\* success block with status zero, only when every step succeeded; a
\* failure block with a non-zero status, when the validation, the encoder
\* initialisation, the encoding, the output write, the input open, the
\* decoding or the image save failed; or a panic message with a non-zero
\* status and no success block, when the input or output path is not valid
\* UTF-8.  No state has both a success block and error output, and status
\* zero is never the status of a run that printed an error.
C7_ThreeOutcomes ==
    /\ pc = "done" =>
          /\ exit_code # <<>>
          /\ SuccessOutcome \/ FailureOutcome \/ PanicOutcome
          /\ SuccessOutcome => (AllStepsSucceeded /\ ~PanicOutcome /\ ~FailureOutcome)
          /\ FailureOutcome <=> (log # <<>> /\ ~log[Len(log)].ok)
          /\ PanicOutcome =>
                /\ AllStepsSucceeded
                /\ (input = NonUtf8Path \/ output = NonUtf8Path)
    /\ pc # "done" => (exit_code = <<>> /\ stdout = <<>> /\ stderr = <<>>)
    /\ ~(stdout # <<>> /\ stderr # <<>>)
    /\ exit_code = <<ExitSuccess>> => stderr = <<>>

C7_Witness ==
    /\ pc = "done"
    /\ PanicOutcome
    /\ command = "Encode"
    /\ output = NonUtf8Path
    /\ Has("encode")

C7_WitnessFailure ==
    /\ pc = "done"
    /\ FailureOutcome
    /\ Has("write")

\* The place of an operation in the order of a run.
Rank(op) ==
    CASE op = "validate" -> 1
      [] op \in Constructors -> 2
      [] op = "with_mipmaps" -> 3
      [] op = "with_global_index" -> 4
      [] op = "encode" -> 5
      [] op = "write" -> 6
      [] op = "open" -> 11
      [] op = "decode" -> 12
      [] op = "save" -> 13

\* C8: the operations of a run are done in the fixed order (validate,
\* construct, modifiers, encode, write; open, decode, save), each at most
\* once; a failed operation is the last one of its run, which has then
\* ended; at most one file is written, by the last operation, in encode
\* directly after an encode call that returned bytes, in decode after open
\* and decode both succeeded.
C8_OrderAndTerminalErrors ==
    /\ \A i, j \in 1..Len(log) : i < j => Rank(log[i].op) < Rank(log[j].op)
    /\ \A i \in 1..Len(log) :
          /\ log[i].op \in (IF command = "Encode"
                            THEN Constructors \cup {"validate", "with_mipmaps",
                                                    "with_global_index", "encode",
                                                    "write"}
                            ELSE {"open", "decode", "save"})
          /\ ~log[i].ok => (i = Len(log) /\ pc = "done" /\ files = <<>>)
    /\ log # <<>> => log[1].op \in {"validate", "open"}
    /\ Len(files) <= 1
    /\ Len(files) = Cardinality({i \in 1..Len(log) :
                                    log[i].op \in {"write", "save"} /\ log[i].ok})
    /\ \A i \in Calls("write") :
          /\ i = Len(log)
          /\ i > 1
          /\ log[i - 1].op = "encode"
          /\ log[i - 1].ok
          /\ encoded # <<>>
    /\ \A i \in Calls("encode") : i > 2 /\ log[1].ok /\ log[2].ok
    /\ \A i \in Calls("save") :
          /\ i = 3
          /\ log[1] = Event("open", ToStr(input), TRUE)
          /\ log[2] = Event("decode", <<>>, TRUE)

C8_Witness ==
    /\ command = "Encode"
    /\ files = <<output>>
    /\ Has("with_mipmaps")
    /\ Has("with_global_index")
    /\ pc = "done"

C8_WitnessDecode ==
    /\ command = "Decode"
    /\ files = <<output>>

\* C9: the "with mipmaps" modifier has been applied to the constructed
\* encoder exactly when mipmaps was requested; whenever it is applied the
\* data format is one of Dxt1, Rgb565, Rgb5a3, so the codec accepts it, and
\* the unwrap of its result never panics.
C9_MipmapsModifier ==
    /\ \A i \in Calls("with_mipmaps") :
          /\ mipmaps
          /\ data_format \in {"Dxt1", "Rgb565", "Rgb5a3"}
          /\ log[i].ok
    /\ Cardinality(Calls("with_mipmaps")) <= 1
    /\ (command = "Encode" /\ pc \in {"with_global_index", "encode"}) =>
          /\ Has("with_mipmaps") <=> mipmaps
          /\ encoder[1].mipmaps = mipmaps
    /\ encoded # <<>> =>
          /\ Has("with_mipmaps") <=> mipmaps
          /\ encoded[1].mipmaps = mipmaps
    /\ \A i \in 1..Len(stderr) :
          stderr[i] # PanicLine("called Result::unwrap() on an Err value")

C9_Witness ==
    /\ encoded # <<>>
    /\ mipmaps
    /\ data_format = "Rgb5a3"
    /\ encoded[1].mipmaps

\* C10: with a data format other than Index4 and Index8, the constructor
\* call made and the summary printed are those of the same request with any
\* other pixel format, and no argument of the call and no line of the
\* summary carries the pixel format; with Index4 or Index8 the first
\* argument of the palettized constructor is the chosen pixel format and
\* the summary prints its label.
C10_PixelFormatIrrelevant ==
    /\ (command = "Encode" /\ data_format \notin {"Index4", "Index8"}) =>
          /\ \A i \in ConstructorCalls :
                /\ \A other \in PixelFormat :
                      /\ log[i].op = SelectConstructor(data_format, other, header).op
                      /\ log[i].args = SelectConstructor(data_format, other, header).args
                      /\ ~Contains(log[i].args, PixelFormatInto(other))
                /\ log[i].op \in {"new_gcix", "new_gbix"}
          /\ encoder # <<>> => encoder[1].palette = <<>>
          /\ encoded # <<>> => encoded[1].palette = <<>>
          /\ SuccessPrinted =>
                /\ \A other \in PixelFormat :
                      stdout = EncodeReport(output, header, data_format, other,
                                            mipmaps, global_index)
                /\ ~HasLine(stdout, "  Pixel format: ")
    /\ (command = "Encode" /\ data_format \in {"Index4", "Index8"}) =>
          /\ \A i \in ConstructorCalls :
                /\ log[i].op \in {"new_gcix_palettized", "new_gbix_palettized"}
                /\ log[i].args[1] = PixelFormatInto(pixel_format)
          /\ encoder # <<>> => encoder[1].palette = <<PixelFormatInto(pixel_format)>>
          /\ SuccessPrinted =>
                \E j \in 1..Len(stdout) :
                   stdout[j] = <<"  Pixel format: ", PixelFormatDisplay(pixel_format)>>

C10_Witness ==
    /\ EncodeSucceeded
    /\ data_format = "IntensityA8"
    /\ pixel_format = "IntensityA8"
    /\ Has("new_gbix")

C10_WitnessPalettized ==
    /\ EncodeSucceeded
    /\ data_format = "Index8"
    /\ pixel_format = "IntensityA8"
    /\ Has("new_gcix_palettized")

====
